---------------------------- MODULE Spec2Model ----------------------------
(***************************************************************************)
(* crashdetect: the diagnostic orchestrator of src/src/crashdetect.cpp.    *)
(*                                                                         *)
(* The process is single threaded.  The host calls AmxExec; the VM runs    *)
(* and calls natives through AmxCallback; a native may call AmxExec again, *)
(* on the same or on another VM.  The handlers therefore nest, and each    *)
(* handler is cut at the call it delegates to: XxxEnter is the code before *)
(* the delegated call, XxxReturn the whole code after it.  ctl is the      *)
(* process's control stack of handlers that have entered and not returned. *)
(* Crash and Interrupt are the asynchronous notifications.                 *)
(***************************************************************************)
EXTENDS Integers, Sequences, FiniteSets, TLC

(* ---- bounds of the model ---- *)
\* handlers nested on the control stack under Spec
MaxDepth == 3
\* handlers nested on the control stack under SpecNest
MaxNest == 5
\* handlers nested on the control stack under SpecWalk
MaxWalk == 3
\* handlers nested on the control stack under SpecLife
MaxLife == 2
\* handlers nested on the control stack under SpecUnload
MaxUnload == 3
\* the code addresses of SpecDbg are 0..MaxAddr
MaxAddr == 3
\* entries of a debug table under SpecDbg
MaxTab == 2

(* ---- values drawn for the inputs ---- *)
AMXs == {"amx1", "amx2"}
\* the one VM of SpecNest
NestAMXs == {"amx1"}
\* frame pointer values the VM register frm takes
FrmVals == {0, 1}
\* the same under SpecWalk: chains of up to two frames
WalkFrmVals == {0, 1, 2}

(* ---- program constants (amx/amx.h, crashdetect.h) ---- *)
AMX_ERR_NONE == 0
AMX_ERR_STACKERR == 3
AMX_ERR_BOUNDS == 4
AMX_ERR_STACKLOW == 7
AMX_ERR_HEAPLOW == 8
AMX_ERR_INVINSTR == 6
AMX_ERR_NATIVE == 10
AMX_ERR_NOTFOUND == 19
AMX_ERR_INDEX == 20
AMX_EXEC_GDK == 0 - 10
AMX_EXEC_MAIN == 0 - 1

\* NativePublicCall::Type
NATIVE == "NATIVE"
PUBLIC == "PUBLIC"

\* indices of publics handed to amx_Exec: a real public, and the reserved one
PublicIdx == {0, AMX_EXEC_GDK}
NestPublicIdx == {0}
\* indices of natives handed to the callback: 0 is in the native table with
\* a name, 1 is not
NativeIdx == {0, 1}
NestNativeIdx == {0}
\* return codes of ::amx_Exec
ExecCodes == {AMX_ERR_NONE, AMX_ERR_BOUNDS, AMX_ERR_NATIVE, AMX_ERR_INDEX}
\* return codes of the previous callback (amx_Callback)
CallbackCodes == {AMX_ERR_NONE, AMX_ERR_NATIVE}
\* values a native leaves in amx->error through amx_RaiseError
RaiseCodes == {AMX_ERR_NATIVE, AMX_ERR_BOUNDS}
\* the return codes under SpecWalk
WalkExecCodes == {AMX_ERR_NONE, AMX_ERR_BOUNDS}
WalkCallbackCodes == {AMX_ERR_NONE}

VARIABLES
    instances_,    \* crashdetect::instances_: AMX -> instance
    npCalls_,      \* crashdetect::npCalls_: the call-type history, top last
    errorCaught_,  \* crashdetect::errorCaught_
    amx,           \* the VMs' registers: amx->frm, amx->error
    die_on_error,  \* server.cfg option read by ExitOnError
    exited,        \* std::exit was called
    nullDeref,     \* a null instance pointer was dereferenced
    ctl,           \* control stack of the handlers in progress, top last
    out,           \* the lines the latest step handed to logprintf
    last,          \* the latest step: what ran and what it observed
    prop,          \* the failure being returned outward: its reports so far
    dbg,           \* AMXDebugInfo::amxdbg_: the line, file and symbol tables
    q              \* the latest query of the debug info and its result

vars == <<instances_, npCalls_, errorCaught_, amx, die_on_error, exited,
          nullDeref, ctl, out, last, prop, dbg, q>>

Top(s) == s[Len(s)]
Pop(s) == SubSeq(s, 1, Len(s) - 1)

(* ---- the host's view of a VM image ---- *)
\* amx1 was compiled with debug info and its file is found; amx2 was not
DebugInfoOnDisk(a) == a = "amx1"

\* amxutils::GetNativeName: 0 ("") when the index is not in the native table
GetNativeName(a, index) == IF index = 0 THEN "native0" ELSE ""
\* amxutils::GetNativeAddress: 0 when the index is not in the native table
GetNativeAddress(a, index) == IF index = 0 THEN 1 ELSE 0
\* amxutils::GetPublicName: 0 ("") when the index is not in the public
\* table; AMX_EXEC_MAIN names the main() entry
GetPublicName(a, index) ==
    IF index = 0 THEN "public0"
    ELSE IF index = AMX_EXEC_MAIN THEN "main" ELSE ""
\* frame addresses whose function is listed in the VM's public table
\* (AMXStackFrame::IsPublic): amx2 calls one of its publics as a function
PublicFrames(a) == IF a = "amx2" THEN {2} ELSE {}

(* ---- output lines ---- *)
Line(kind, a, depth, what, code) ==
    [kind |-> kind, amx |-> a, depth |-> depth, what |-> what, code |-> code]


(* ---- the instance registry ---- *)
NoInstance == [present |-> FALSE, loaded |-> FALSE]

\* crashdetect::crashdetect(AMX*): debugInfo_ is loaded when the .amx file
\* is found and carries AMX_FLAG_DEBUG
NewInstance(a) == [present |-> TRUE, loaded |-> DebugInfoOnDisk(a)]

(* ---- the process state a function of crashdetect.cpp works on ---- *)
\* npCalls, instances, errorCaught, amx: the statics and the VMs as the
\* function sees them; out: the lines it printed; exited: it called
\* std::exit; self: the instance whose crash/interrupt handler ran;
\* btRan, btKept: PrintBacktrace was called, and every call of it returned
\* with the history and the VMs as it found them; btCalls, btFrm: the copy
\* of the history and the frm that PrintBacktrace started from; btSelf: the
\* VM of the instance (amx_) that frm was read from
Here ==
    [npCalls |-> npCalls_, instances |-> instances_,
     errorCaught |-> errorCaught_, amx |-> amx, out |-> <<>>,
     exited |-> FALSE, nullDeref |-> nullDeref, self |-> "",
     btRan |-> FALSE, btKept |-> TRUE, btCalls |-> <<>>, btFrm |-> 0,
     btSelf |-> ""]

logprintf(S, line) == [S EXCEPT !.out = Append(@, line)]

\* crashdetect::GetInstance
GetInstance(S, a) ==
    IF ~S.instances[a].present
    THEN [S EXCEPT !.instances[a] = NewInstance(a)]
    ELSE S

\* an ExitOnError that does not read the option
ExitOnErrorAlways(S) ==
    [logprintf(S, Line("aborting", "", -1, "", 0)) EXCEPT !.exited = TRUE]

\* crashdetect::ExitOnError
ExitOnError(S) ==
    IF die_on_error
    THEN [logprintf(S, Line("aborting", "", -1, "", 0)) EXCEPT !.exited = TRUE]
    ELSE S

(* ---- the debug info (amxdebuginfo.cpp) ---- *)
Addrs == 0..MaxAddr
\* AMX_DBG_LINE, AMX_DBG_FILE and AMX_DBG_SYMBOL entries
LineVals == {0, 4}
FileNames == {"a.pwn", "b.inc"}
\* symbol names, character by character
SymbolNames == {<<"f">>, <<"@", "g">>}
iFUNCTN == "function"
iVARIABLE == "variable"
LineEntries == [address : Addrs, line : LineVals]
FileEntries == [address : Addrs, name : FileNames]
SymbolEntries ==
    {e \in [ident : {iFUNCTN, iVARIABLE}, name : SymbolNames,
             codestart : Addrs, codeend : Addrs] : e.codestart < e.codeend}

\* the sequences over S of at most MaxTab entries
SeqsUpTo(S) == UNION {[1..n -> S] : n \in 0..MaxTab}

\* a table is sorted ascending by address
SortedByAddress(T) ==
    \A i \in 1..(Len(T) - 1) : T[i].address <= T[i + 1].address
SortedByCodeStart(T) ==
    \A i \in 1..(Len(T) - 1) : T[i].codestart <= T[i + 1].codestart

\* Symbol::IsFunction, IsBuggedForward
IsFunction(e) == e.ident = iFUNCTN
IsBuggedForward(e) == e.name[1] = "@"

\* the code ranges of two implemented functions do not overlap
Implemented(e) == IsFunction(e) /\ ~IsBuggedForward(e)
DisjointFunctions(T) ==
    \A i, j \in 1..Len(T) :
        (i < j /\ Implemented(T[i]) /\ Implemented(T[j])) =>
            T[i].codeend <= T[j].codestart

LineTables == {T \in SeqsUpTo(LineEntries) : SortedByAddress(T)}
FileTables == {T \in SeqsUpTo(FileEntries) : SortedByAddress(T)}
SymbolTables ==
    {T \in SeqsUpTo(SymbolEntries) :
        SortedByCodeStart(T) /\ DisjointFunctions(T)}

\* AMX_HEADER.cod and .dat of the VM the debug info belongs to
Headers == {h \in [cod : Addrs, dat : Addrs] : h.cod # h.dat}

NoTables == [lines |-> <<>>, files |-> <<>>, symbols |-> <<>>,
             hdr |-> [cod |-> 0, dat |-> 0]]

\* the loop of GetLine and GetFile: `last` stays at begin() until an entry
\* with address <= the queried one is passed; 0 stands for begin() == end()
LastAtOrBefore(T, address) ==
    IF T = <<>> THEN 0
    ELSE IF \E i \in 1..Len(T) : \A j \in 1..i : T[j].address <= address
         THEN CHOOSE i \in 1..Len(T) :
                 /\ \A j \in 1..i : T[j].address <= address
                 /\ i < Len(T) => T[i + 1].address > address
         ELSE 1

\* the Line, File and Symbol objects the lookups return: a default
\* constructed one tests false (operator bool), one made of an entry true
NoLine == [set |-> FALSE, address |-> 0, line |-> 0]
NoFile == [set |-> FALSE, address |-> 0, name |-> ""]
NoSymbol == [set |-> FALSE, ident |-> "", name |-> <<>>,
             codestart |-> 0, codeend |-> 0]
LineOf(e) == [set |-> TRUE, address |-> e.address, line |-> e.line]
FileOf(e) == [set |-> TRUE, address |-> e.address, name |-> e.name]
SymbolOf(e) == [set |-> TRUE, ident |-> e.ident, name |-> e.name,
                codestart |-> e.codestart, codeend |-> e.codeend]

\* what *last may yield when the table is empty and last == end(): a
\* default object, or whatever lies behind the table
LineObjects == {NoLine, LineOf([address |-> MaxAddr, line |-> 4])}
FileObjects == {NoFile, FileOf([address |-> MaxAddr, name |-> "b.inc"])}

\* a GetLine that increments the line number in the table
GetLineInPlace(T, address, garbage) ==
    LET k == LastAtOrBefore(T, address)
    IN  IF k = 0
        THEN [result |-> [garbage EXCEPT !.line = @ + 1], table |-> T]
        ELSE [result |-> [LineOf(T[k]) EXCEPT !.line = @ + 1],
              table |-> [T EXCEPT ![k].line = @ + 1]]

\* AMXDebugInfo::GetLine: the copy of *last with its line incremented, and
\* the table as the call leaves it
GetLine(T, address, garbage) ==
    LET k == LastAtOrBefore(T, address)
        line == IF k = 0 THEN garbage ELSE LineOf(T[k])
    IN  [result |-> [line EXCEPT !.line = @ + 1], table |-> T]

\* operator bool of a Line or File object
IsSet(obj) == obj.set

\* AMXDebugInfo::GetLineNumber
GetLineNumber(T, address, garbage) ==
    LET line == GetLine(T, address, garbage).result
    IN  IF IsSet(line) THEN line.line ELSE 0

\* AMXDebugInfo::GetFile
GetFile(T, address, garbage) ==
    LET k == LastAtOrBefore(T, address)
    IN  IF k = 0 THEN garbage ELSE FileOf(T[k])

\* AMXDebugInfo::GetFileName
GetFileName(T, address, garbage) ==
    LET file == GetFile(T, address, garbage)
    IN  IF IsSet(file) THEN file.name ELSE ""

\* the symbols GetFunction does not skip
Matches(e, address) ==
    /\ IsFunction(e)
    /\ ~(e.codestart > address \/ e.codeend <= address)
    /\ ~IsBuggedForward(e)

\* a GetFunction without the IsBuggedForward test
GetFunctionNoFilter(T, address) ==
    LET hits == {i \in 1..Len(T) :
                    /\ IsFunction(T[i])
                    /\ ~(T[i].codestart > address \/ T[i].codeend <= address)}
    IN  IF hits = {} THEN NoSymbol
        ELSE SymbolOf(T[CHOOSE i \in hits : \A j \in hits : i <= j])

\* a GetFunction that takes the end of the range as inside
GetFunctionEndInside(T, address) ==
    LET hits == {i \in 1..Len(T) :
                    /\ IsFunction(T[i])
                    /\ ~(T[i].codestart > address \/ T[i].codeend < address)
                    /\ ~IsBuggedForward(T[i])}
    IN  IF hits = {} THEN NoSymbol
        ELSE SymbolOf(T[CHOOSE i \in hits : \A j \in hits : i <= j])

\* AMXDebugInfo::GetFunction: the first symbol of the table not skipped
GetFunction(T, address) ==
    LET hits == {i \in 1..Len(T) : Matches(T[i], address)}
    IN  IF hits = {} THEN NoSymbol
        ELSE SymbolOf(T[CHOOSE i \in hits : \A j \in hits : i <= j])

\* a GetValue that adds the frame pointer to a data-segment address
GetValueFrameData(cod, dat, amxfrm, address, frm) ==
    IF address > cod THEN cod + address
    ELSE dat + (IF frm = 0 THEN amxfrm ELSE frm) + address

\* AMXDebugInfo::Symbol::GetValue: the offset from amx->base of the cell it
\* reads; cod and dat are the header's, amxfrm is amx->frm
GetValue(cod, dat, amxfrm, address, frm) ==
    IF address > cod THEN cod + address
    ELSE IF address > dat /\ address < cod THEN dat + address
    ELSE dat + (IF frm = 0 THEN amxfrm ELSE frm) + address

\* the record of a query: the function, its arguments, the object, number,
\* name or offset it returned, whether the table is as it was, whether the
\* lookup dereferenced end(), and, when the query repeats the one before
\* it, the number that one returned
Query(fn, address, obj) ==
    [fn |-> fn, address |-> address, obj |-> obj, number |-> 0, name |-> "",
     kept |-> TRUE, ub |-> FALSE, frm |-> 0, loc |-> 0,
     again |-> FALSE, prev |-> 0]
NoQuery == Query("-", 0, NoLine)

\* a first query, or the one repetition of the query before it
First == q.fn = "-"
Repeat(fn, address) == q.fn = fn /\ q.address = address /\ ~q.again

(* ---- the call-stack walker (amxcallstack.cpp) ---- *)
\* AMXCallStack(amx, debugInfo, frm).GetFrames(): the frames of the chain
\* that starts at frm, most recent first; the frame at f saves f - 1 and
\* the chain ends at 0.  A frame carries its address, the call address (the
\* return address into its caller, 0 for the entry point the host called)
\* and whether its function is a public
RECURSIVE GetFrames(_, _)
GetFrames(a, frm) ==
    IF frm <= 0 THEN <<>>
    ELSE <<[addr |-> frm,
            callAddr |-> IF frm = 1 THEN 0 ELSE frm,
            isPublic |-> frm \in PublicFrames(a)]>> \o GetFrames(a, frm - 1)

(* ---- crashdetect::PrintBacktrace ---- *)
\* the NATIVE branch of the loop: one line
NativeLine(call, depth) ==
    IF GetNativeAddress(call.amx, call.index) = 0
    THEN Line("native", call.amx, depth, "??", 0)
    ELSE IF GetNativeName(call.amx, call.index) # ""
         THEN Line("native", call.amx, depth,
                   GetNativeName(call.amx, call.index), 0)
         ELSE Line("native", call.amx, depth, "?? from", 0)

\* what a frame line shows.  With debug info: the function prototype, the
\* file and the line, the line looked up at the VM's cip for the first
\* frame of the entry ("cip") and at the previous frame's call address for
\* the others ("prev").  Without: no file and no line, and the function as
\* "public <name>" for a public, the raw address for another function
\* ("raw"), and for the entry point the name the public table has for the
\* entry's index ("main", "public <name>") or "??"
FrameWhat(call, frames, i, loaded) ==
    IF loaded THEN (IF i > 1 THEN "prev" ELSE "cip")
    ELSE IF frames[i].isPublic THEN "public"
    ELSE IF i > 1 /\ frames[i].callAddr = 0
         THEN IF GetPublicName(call.amx, call.index) # ""
              THEN IF call.index = AMX_EXEC_MAIN THEN "main"
                   ELSE GetPublicName(call.amx, call.index)
              ELSE "??"
         ELSE "raw"

\* a PUBLIC branch that prints nothing for an entry without frames
PublicLinesSilent(call, frm, depth, loaded) ==
    LET frames == GetFrames(call.amx, frm)
    IN  [i \in 1..Len(frames) |->
            Line("frame", call.amx, depth + i - 1,
                 FrameWhat(call, frames, i, loaded), frames[i].addr)]

\* a PUBLIC branch that prints the frames of an entry oldest first
PublicLinesOldestFirst(call, frm, depth, loaded) ==
    LET frames == GetFrames(call.amx, frm)
    IN  IF frames = <<>>
        THEN <<Line("corrupted", call.amx, -1, "", 0)>>
        ELSE [i \in 1..Len(frames) |->
                Line("frame", call.amx, depth + i - 1,
                     FrameWhat(call, frames, Len(frames) + 1 - i, loaded),
                     frames[Len(frames) + 1 - i].addr)]

\* the PUBLIC branch of the loop: "Stack corrupted" for no frames, else one
\* line per frame
PublicLines(call, frm, depth, loaded) ==
    LET frames == GetFrames(call.amx, frm)
    IN  IF frames = <<>>
        THEN <<Line("corrupted", call.amx, -1, "", 0)>>
        ELSE [i \in 1..Len(frames) |->
                Line("frame", call.amx, depth + i - 1,
                     FrameWhat(call, frames, i, loaded),
                     frames[i].addr)]

\* the while loop over the local copy npCallStack.  For a public entry
\* instances_[call.amx()] is operator[] of the map: for a VM that has no
\* instance it gives a null pointer, and ->debugInfo_ dereferences it; what
\* the process prints and does from there on is undefined, so the lines end
\* with a line that stands for it
RECURSIVE WalkCalls(_, _, _, _)
WalkCalls(npCallStack, frm, depth, instances) ==
    IF npCallStack = <<>> THEN [lines |-> <<>>, null |-> FALSE]
    ELSE
      LET call == Top(npCallStack)
          inst == instances[call.amx]
          here == IF call.type = NATIVE
                  THEN <<NativeLine(call, depth)>>
                  ELSE PublicLines(call, frm, depth, inst.loaded)
          n    == IF call.type = NATIVE THEN 1
                  ELSE Len(GetFrames(call.amx, frm))
          rest == WalkCalls(Pop(npCallStack), call.frm, depth + n, instances)
      IN  IF call.type = PUBLIC /\ ~inst.present
          THEN [lines |-> <<Line("undefined", call.amx, -1, "", 0)>>,
                null  |-> TRUE]
          ELSE [lines |-> here \o rest.lines, null |-> rest.null]

BacktraceHeader == Line("backtrace", "", -1, "", 0)

\* a PrintBacktrace that walks npCalls_ itself instead of a copy
PrintBacktraceNoCopy(S, self) ==
    IF S.npCalls = <<>> THEN S
    ELSE
      LET w == WalkCalls(S.npCalls, S.amx[self].frm, 0, S.instances)
      IN  [S EXCEPT !.out = @ \o <<BacktraceHeader>> \o w.lines,
                    !.nullDeref = @ \/ w.null,
                    !.npCalls = <<>>]

\* a PrintBacktrace that starts from the frm recorded in the topmost entry
\* instead of the instance's amx_->frm
PrintBacktraceEntryFrm(S, self) ==
    IF S.npCalls = <<>> THEN S
    ELSE
      LET w == WalkCalls(S.npCalls, Top(S.npCalls).frm, 0, S.instances)
      IN  [S EXCEPT !.out = @ \o <<BacktraceHeader>> \o w.lines,
                    !.nullDeref = @ \/ w.null,
                    !.npCalls = S.npCalls]

\* crashdetect::PrintBacktrace: the loop pops the copy, npCalls_ is only read
PrintBacktrace(S, self) ==
    IF S.npCalls = <<>> THEN S
    ELSE
      LET w == WalkCalls(S.npCalls, S.amx[self].frm, 0, S.instances)
      IN  [S EXCEPT !.out = @ \o <<BacktraceHeader>> \o w.lines,
                    !.nullDeref = @ \/ w.null,
                    !.npCalls = S.npCalls]

\* a call of PrintBacktrace, with what it did to the history and the VMs
CallPrintBacktrace(S, self) ==
    LET T == PrintBacktrace(S, self)
    IN  [T EXCEPT !.btRan = TRUE,
                  !.btKept = @ /\ T.npCalls = S.npCalls /\ T.amx = S.amx,
                  !.btCalls = S.npCalls,
                  !.btFrm = S.amx[self].frm,
                  !.btSelf = self]

(* ---- the error handlers ---- *)
\* the switch of HandleRuntimeError: the code-specific lines
DetailLines(S, self, error) ==
    IF error \in {AMX_ERR_BOUNDS, AMX_ERR_NOTFOUND, AMX_ERR_STACKERR,
                  AMX_ERR_STACKLOW, AMX_ERR_HEAPLOW, AMX_ERR_INVINSTR}
    THEN logprintf(S, Line("detail", self, -1, "", error))
    ELSE S

\* crashdetect::HandleRuntimeError
HandleRuntimeError(S, self, index, error) ==
    LET S1 == [S EXCEPT !.errorCaught = TRUE]
    IN  IF error = AMX_ERR_INDEX /\ index = AMX_EXEC_GDK
        THEN S1
        ELSE ExitOnError(CallPrintBacktrace(
                 DetailLines(
                     logprintf(S1, Line("runtime_error", self, -1, "", error)),
                     self, error),
                 self))

\* crashdetect::RuntimeError
RuntimeError(S, a, index, error) ==
    HandleRuntimeError(GetInstance(S, a), a, index, error)

\* amx_Error (plugin.cpp): hands the error to crashdetect::RuntimeError
amx_Error(S, a, index, error) == RuntimeError(S, a, index, error)

\* crashdetect::HandleNativeError
HandleNativeError(S, self, index) ==
    LET name == IF GetNativeName(self, index) = "" THEN "??"
                ELSE GetNativeName(self, index)
    IN  ExitOnError(CallPrintBacktrace(
            logprintf(S, Line("native_failed", self, -1, name, 0)), self))

\* crashdetect::HandleCrash
HandleCrash(S, self) ==
    CallPrintBacktrace(
        logprintf([S EXCEPT !.self = self], Line("crash", self, -1, "", 0)),
        self)

\* crashdetect::HandleInterrupt
HandleInterrupt(S, self) ==
    CallPrintBacktrace(
        logprintf([S EXCEPT !.self = self], Line("interrupt", "", -1, "", 0)),
        self)

\* a Crash that blames the oldest entry of the history
CrashOldest(S) ==
    IF S.npCalls # <<>>
    THEN HandleCrash(GetInstance(S, S.npCalls[1].amx), S.npCalls[1].amx)
    ELSE logprintf(S, Line("crash_unknown", "", -1, "", 0))

\* a Crash that applies the abort policy when no call is active
CrashUnknownAborts(S) ==
    IF S.npCalls # <<>>
    THEN HandleCrash(GetInstance(S, Top(S.npCalls).amx), Top(S.npCalls).amx)
    ELSE ExitOnError(logprintf(S, Line("crash_unknown", "", -1, "", 0)))

\* crashdetect::Crash
Crash(S) ==
    IF S.npCalls # <<>>
    THEN HandleCrash(GetInstance(S, Top(S.npCalls).amx), Top(S.npCalls).amx)
    ELSE logprintf(S, Line("crash_unknown", "", -1, "", 0))

\* an Interrupt that applies the abort policy only when a call is active
InterruptNoExit(S) ==
    IF S.npCalls # <<>>
    THEN ExitOnError(HandleInterrupt(GetInstance(S, Top(S.npCalls).amx),
                                     Top(S.npCalls).amx))
    ELSE logprintf(S, Line("interrupt", "", -1, "", 0))

\* crashdetect::Interrupt
Interrupt(S) ==
    ExitOnError(
        IF S.npCalls # <<>>
        THEN HandleInterrupt(GetInstance(S, Top(S.npCalls).amx),
                             Top(S.npCalls).amx)
        ELSE logprintf(S, Line("interrupt", "", -1, "", 0)))

(* ---- the hooks, cut at the call they delegate to ---- *)
NativePublicCall(type, a, index, frm) ==
    [type |-> type, amx |-> a, index |-> index, frm |-> frm]

\* HandleAmxExec up to ::amx_Exec
HandleAmxExecBefore(S, self, index) ==
    [S EXCEPT !.npCalls =
        Append(@, NativePublicCall(PUBLIC, self, index, S.amx[self].frm))]

\* a HandleAmxExec that returns right after amx_Error, without the pop
HandleAmxExecAfterEarlyReturn(S, self, index, retcode) ==
    IF retcode # AMX_ERR_NONE /\ ~S.errorCaught
    THEN amx_Error(S, self, index, retcode)
    ELSE [S EXCEPT !.errorCaught = FALSE, !.npCalls = Pop(@)]

\* HandleAmxExec after ::amx_Exec returned retcode
HandleAmxExecAfter(S, self, index, retcode) ==
    LET S1 == IF retcode # AMX_ERR_NONE /\ ~S.errorCaught
              THEN amx_Error(S, self, index, retcode)
              ELSE [S EXCEPT !.errorCaught = FALSE]
    IN  IF S1.exited THEN S1 ELSE [S1 EXCEPT !.npCalls = Pop(@)]

\* HandleAmxCallback up to prevCallback_
HandleAmxCallbackBefore(S, self, index) ==
    [S EXCEPT !.npCalls =
                 Append(@, NativePublicCall(NATIVE, self, index,
                                            S.amx[self].frm)),
              !.amx[self].error = AMX_ERR_NONE]

\* HandleAmxCallback after prevCallback_ returned
HandleAmxCallbackAfter(S, self, index) ==
    LET S1 == IF S.amx[self].error = AMX_ERR_NATIVE
              THEN HandleNativeError(S, self, index)
              ELSE S
    IN  IF S1.exited THEN S1
        ELSE [S1 EXCEPT !.amx[self].error = AMX_ERR_NONE,
                        !.npCalls = Pop(@)]

(* ---- bookkeeping of the steps ---- *)
EXEC == "HandleAmxExec"
CALLBACK == "HandleAmxCallback"

\* the handler frame pushed on the control stack: the instance that runs
\* it, its index argument, and the VM's frm when it was entered
Handler(fn, a, index, frm) ==
    [fn |-> fn, amx |-> a, index |-> index, frm0 |-> frm]

\* the record of a step: op, the handler's instance and index, the return
\* code of the delegated call, whether no other handler ran inside the
\* handler that returns, what this step reported, whether
\* HandleRuntimeError took the phantom branch, whether the execution step
\* that returned before this one was such a phantom step, the history
\* length before the step, whether the step added an instance to the
\* registry, the observations of the step's state, and, in the behaviours
\* that keep track of it (track), the VMs that were unloaded and not loaded
\* since
Step(op, a, index, retcode, S) ==
    [op |-> op, amx |-> a, index |-> index, retcode |-> retcode,
     leaf |-> FALSE, reported |-> FALSE, phantom |-> FALSE,
     afterPhantom |-> FALSE, sincePhantom |-> last.sincePhantom,
     depth |-> Len(npCalls_),
     created |-> \E x \in AMXs : S.instances[x].present
                                 /\ ~instances_[x].present,
     self |-> S.self, btRan |-> S.btRan, btKept |-> S.btKept,
     btCalls |-> S.btCalls, btFrm |-> S.btFrm, btSelf |-> S.btSelf,
     track |-> last.track, unloaded |-> last.unloaded]

\* a step of the host or of the VM that is no handler's return and no
\* notification; leaf tells whether the handler on top has just been
\* entered and has called nothing yet
Quiet(leaf) == [Step("-", "", 0, AMX_ERR_NONE, Here) EXCEPT !.leaf = leaf,
                                                          !.depth = 0]


\* the failure that the handler which has just returned handed outward:
\* where it was first reported ("exec": by HandleAmxExec, "native": by
\* HandleAmxCallback), the reports it has had, and the code it travels as.
\* A handler hands on the failure it received when it returns right after
\* receiving it, an execution step only with the code it received.
NoProp == [origin |-> "none", n |-> 0, code |-> AMX_ERR_NONE]

HasKind(lines, kind) == \E i \in 1..Len(lines) : lines[i].kind = kind

\* what a function leaves behind becomes the next state
Commit(S) ==
    /\ instances_' = S.instances
    /\ npCalls_' = S.npCalls
    /\ errorCaught_' = S.errorCaught
    /\ amx' = S.amx
    /\ out' = S.out
    /\ exited' = S.exited
    /\ nullDeref' = S.nullDeref
    /\ UNCHANGED <<die_on_error, dbg, q>>

(* ---- plugin life cycle ---- *)
\* crashdetect::AmxLoad: a VM that has an instance keeps it
AmxLoad(a) ==
    /\ ~exited
    /\ Commit(IF ~instances_[a].present
              THEN [Here EXCEPT !.instances[a] = NewInstance(a)]
              ELSE Here)
    /\ last' = [Quiet(last.leaf) EXCEPT !.unloaded = @ \ {a}]
    /\ UNCHANGED <<ctl, prop>>

\* crashdetect::AmxUnload
AmxUnload(a) ==
    /\ ~exited
    /\ instances_[a].present
    /\ Commit([Here EXCEPT !.instances[a] = NoInstance])
    /\ last' = [Quiet(last.leaf) EXCEPT
                  !.unloaded = IF last.track THEN @ \cup {a} ELSE @]
    /\ UNCHANGED <<ctl, prop>>

\* the host unloads a script that has no call in progress
NoActiveCall(a) == \A i \in 1..Len(npCalls_) : npCalls_[i].amx # a

HostUnload(a) == NoActiveCall(a) /\ AmxUnload(a)

\* the host unloads a script between calls or inside a native that is
\* running, whether or not calls of the script are in progress
UnloadAnyTime(a) ==
    /\ IF ctl = <<>> THEN TRUE ELSE Top(ctl).fn = CALLBACK
    /\ AmxUnload(a)

(* ---- execution steps ---- *)
\* crashdetect::AmxExec, HandleAmxExec up to ::amx_Exec: called by the
\* host, or by a native that is running
ExecEnter(a, index, bound) ==
    /\ ~exited
    /\ Len(ctl) < bound
    /\ IF ctl = <<>> THEN TRUE ELSE Top(ctl).fn = CALLBACK
    /\ Commit(HandleAmxExecBefore(GetInstance(Here, a), a, index))
    /\ ctl' = Append(ctl, Handler(EXEC, a, index, amx[a].frm))
    /\ last' = Quiet(TRUE)
    /\ prop' = NoProp

\* ::amx_Exec runs code of the VM: calls and returns move frm
VmRun(frm) ==
    /\ ~exited
    /\ ctl # <<>> /\ Top(ctl).fn = EXEC
    /\ amx[Top(ctl).amx].frm # frm
    /\ Commit([Here EXCEPT !.amx[Top(ctl).amx].frm = frm])
    /\ last' = Quiet(last.leaf)
    /\ prop' = NoProp
    /\ UNCHANGED ctl

\* ::amx_Exec returned retcode: the rest of HandleAmxExec
ExecReturn(retcode) ==
    /\ ~exited
    /\ ctl # <<>> /\ Top(ctl).fn = EXEC
    /\ LET f == Top(ctl)
           S == HandleAmxExecAfter(Here, f.amx, f.index, retcode)
           reported == HasKind(S.out, "runtime_error")
       IN  /\ Commit(S)
           /\ ctl' = IF S.exited THEN ctl
                     ELSE Pop(ctl)
           /\ last' = [Step("ExecReturn", f.amx, f.index, retcode, S) EXCEPT
                         !.leaf = last.leaf,
                         !.reported = reported,
                         !.phantom = /\ ~errorCaught_
                                     /\ retcode = AMX_ERR_INDEX
                                     /\ f.index = AMX_EXEC_GDK,
                         !.afterPhantom = last.sincePhantom,
                         !.sincePhantom = /\ ~errorCaught_
                                          /\ retcode = AMX_ERR_INDEX
                                          /\ f.index = AMX_EXEC_GDK]
           /\ prop' = IF retcode = AMX_ERR_NONE THEN NoProp
                      ELSE IF prop.origin # "none" /\ prop.code = retcode
                           THEN [prop EXCEPT
                                   !.n = @ + (IF reported THEN 1 ELSE 0)]
                           ELSE [origin |-> "exec",
                                 n |-> IF reported THEN 1 ELSE 0,
                                 code |-> retcode]

(* ---- native calls ---- *)
\* crashdetect::AmxCallback, HandleAmxCallback up to prevCallback_: called
\* by the VM that is executing
CallbackEnter(index, bound) ==
    /\ ~exited
    /\ Len(ctl) < bound
    /\ ctl # <<>> /\ Top(ctl).fn = EXEC
    /\ LET a == Top(ctl).amx
       IN  /\ Commit(HandleAmxCallbackBefore(GetInstance(Here, a), a, index))
           /\ ctl' = Append(ctl, Handler(CALLBACK, a, index, amx[a].frm))
           /\ last' = Quiet(FALSE)
    /\ prop' = NoProp

\* the native that is running calls amx_RaiseError
NativeRaise(code) ==
    /\ ~exited
    /\ ctl # <<>> /\ Top(ctl).fn = CALLBACK
    /\ amx[Top(ctl).amx].error # code
    /\ Commit([Here EXCEPT !.amx[Top(ctl).amx].error = code])
    /\ last' = Quiet(FALSE)
    /\ UNCHANGED <<ctl, prop>>

\* prevCallback_ returned retcode: the rest of HandleAmxCallback
CallbackReturn(retcode) ==
    /\ ~exited
    /\ ctl # <<>> /\ Top(ctl).fn = CALLBACK
    /\ LET f == Top(ctl)
           S == HandleAmxCallbackAfter(Here, f.amx, f.index)
           reported == HasKind(S.out, "native_failed")
       IN  /\ Commit(S)
           /\ ctl' = IF S.exited THEN ctl
                     ELSE Pop(ctl)
           /\ last' = [Step("CallbackReturn", f.amx, f.index, retcode, S) EXCEPT
                         !.reported = reported]
           /\ prop' = IF retcode = AMX_ERR_NONE THEN NoProp
                      ELSE IF prop.origin # "none"
                           THEN [prop EXCEPT !.code = retcode]
                           ELSE IF reported
                                THEN [origin |-> "native", n |-> 1,
                                      code |-> retcode]
                                ELSE NoProp

(* ---- asynchronous notifications ---- *)
\* the crash handler set by Crash::SetHandler
CrashStep ==
    /\ ~exited
    /\ Commit(Crash(Here))
    /\ last' = [Step("Crash", "", 0, AMX_ERR_NONE, Crash(Here)) EXCEPT
                  !.leaf = last.leaf]
    /\ UNCHANGED <<ctl, prop>>

\* the Ctrl-C handler set by Interrupt::SetHandler
InterruptStep ==
    /\ ~exited
    /\ Commit(Interrupt(Here))
    /\ last' = [Step("Interrupt", "", 0, AMX_ERR_NONE, Interrupt(Here)) EXCEPT
                  !.leaf = last.leaf]
    /\ UNCHANGED <<ctl, prop>>

(* ---- specifications ---- *)
\* no step has been taken
NoStep ==
    [op |-> "-", amx |-> "", index |-> 0, retcode |-> AMX_ERR_NONE,
     leaf |-> FALSE, reported |-> FALSE, phantom |-> FALSE,
     afterPhantom |-> FALSE, sincePhantom |-> FALSE, depth |-> 0,
     created |-> FALSE, self |-> "", btRan |-> FALSE,
     btKept |-> TRUE, btCalls |-> <<>>, btFrm |-> 0, btSelf |-> "",
     track |-> FALSE, unloaded |-> {}]

Init ==
    /\ instances_ = [a \in AMXs |-> NoInstance]
    /\ npCalls_ = <<>>
    /\ errorCaught_ = FALSE
    /\ amx = [a \in AMXs |-> [frm |-> 0, error |-> AMX_ERR_NONE]]
    /\ die_on_error \in BOOLEAN
    /\ exited = FALSE
    /\ nullDeref = FALSE
    /\ ctl = <<>>
    /\ out = <<>>
    /\ last = NoStep
    /\ prop = NoProp
    /\ dbg = NoTables
    /\ q = NoQuery

Next ==
    \/ \E a \in AMXs : AmxLoad(a)
    \/ \E a \in AMXs : HostUnload(a)
    \/ \E a \in AMXs, index \in PublicIdx : ExecEnter(a, index, MaxDepth)
    \/ \E frm \in FrmVals : VmRun(frm)
    \/ \E retcode \in ExecCodes : ExecReturn(retcode)
    \/ \E index \in NativeIdx : CallbackEnter(index, MaxDepth)
    \/ \E code \in RaiseCodes : NativeRaise(code)
    \/ \E retcode \in CallbackCodes : CallbackReturn(retcode)
    \/ CrashStep
    \/ InterruptStep

Spec == Init /\ [][Next]_vars

\* deeper nesting over one VM, one public and one native
NextNest ==
    \/ \E a \in NestAMXs, index \in NestPublicIdx : ExecEnter(a, index, MaxNest)
    \/ \E frm \in FrmVals : VmRun(frm)
    \/ \E retcode \in ExecCodes : ExecReturn(retcode)
    \/ \E index \in NestNativeIdx : CallbackEnter(index, MaxNest)
    \/ \E code \in RaiseCodes : NativeRaise(code)
    \/ \E retcode \in CallbackCodes : CallbackReturn(retcode)

SpecNest == Init /\ [][NextNest]_vars

\* longer frame chains over both VMs, one public and one native: the
\* backtraces of runtime errors and of crashes
NextWalk ==
    \/ \E a \in AMXs, index \in NestPublicIdx : ExecEnter(a, index, MaxWalk)
    \/ \E frm \in WalkFrmVals : VmRun(frm)
    \/ \E retcode \in WalkExecCodes : ExecReturn(retcode)
    \/ \E index \in NestNativeIdx : CallbackEnter(index, MaxWalk)
    \/ \E retcode \in WalkCallbackCodes : CallbackReturn(retcode)
    \/ CrashStep

SpecWalk == Init /\ [][NextWalk]_vars

(* ---- the life cycle of the instances ---- *)
\* as Init, and the unloads are kept track of
InitLife ==
    /\ instances_ = [a \in AMXs |-> NoInstance]
    /\ npCalls_ = <<>>
    /\ errorCaught_ = FALSE
    /\ amx = [a \in AMXs |-> [frm |-> 0, error |-> AMX_ERR_NONE]]
    /\ die_on_error \in BOOLEAN
    /\ exited = FALSE
    /\ nullDeref = FALSE
    /\ ctl = <<>>
    /\ out = <<>>
    /\ last = [NoStep EXCEPT !.track = TRUE]
    /\ prop = NoProp
    /\ dbg = NoTables
    /\ q = NoQuery

\* scripts are loaded and unloaded between calls of one public and one
\* native
NextLife ==
    \/ \E a \in AMXs : AmxLoad(a)
    \/ \E a \in AMXs : HostUnload(a)
    \/ \E a \in AMXs, index \in NestPublicIdx : ExecEnter(a, index, MaxLife)
    \/ \E retcode \in WalkExecCodes : ExecReturn(retcode)
    \/ \E index \in NestNativeIdx : CallbackEnter(index, MaxLife)
    \/ \E retcode \in WalkCallbackCodes : CallbackReturn(retcode)
    \/ CrashStep

SpecLife == InitLife /\ [][NextLife]_vars

\* loading and unloading at any time the host runs.  A handler that returns
\* after its instance was erased reads amx_ from the destroyed object:
\* either the old value is still there and the handler goes on as usual
\* (ExecReturn, CallbackReturn), or the read faults and the crash handler
\* runs (CrashStep).  Nothing is said about the process after a null
\* dereference in PrintBacktrace.
NextUnload ==
    \/ \E a \in AMXs : ~nullDeref /\ AmxLoad(a)
    \/ \E a \in AMXs : ~nullDeref /\ UnloadAnyTime(a)
    \/ \E a \in AMXs, index \in NestPublicIdx :
           ~nullDeref /\ ExecEnter(a, index, MaxUnload)
    \/ \E frm \in FrmVals : ~nullDeref /\ VmRun(frm)
    \/ \E retcode \in WalkExecCodes : ~nullDeref /\ ExecReturn(retcode)
    \/ \E index \in NestNativeIdx :
           ~nullDeref /\ CallbackEnter(index, MaxUnload)
    \/ ~nullDeref /\ NativeRaise(AMX_ERR_NATIVE)
    \/ \E retcode \in WalkCallbackCodes :
           ~nullDeref /\ CallbackReturn(retcode)
    \/ ~nullDeref /\ CrashStep

SpecUnload == Init /\ [][NextUnload]_vars

(* ---- queries of the debug info ---- *)
\* GetLineNumber(address)
QueryLine(address, garbage) ==
    /\ First \/ Repeat("GetLineNumber", address)
    /\ garbage \in (IF dbg.lines = <<>> THEN LineObjects ELSE {NoLine})
    /\ LET r == GetLine(dbg.lines, address, garbage)
       IN  /\ dbg' = [dbg EXCEPT !.lines = r.table]
           /\ q' = [Query("GetLineNumber", address, r.result) EXCEPT
                      !.number = GetLineNumber(dbg.lines, address, garbage),
                      !.kept = r.table = dbg.lines,
                      !.ub = dbg.lines = <<>>,
                      !.again = ~First,
                      !.prev = q.number]
    /\ UNCHANGED <<instances_, npCalls_, errorCaught_, amx, die_on_error,
                   exited, nullDeref, ctl, out, last, prop>>

\* GetFileName(address)
QueryFile(address, garbage) ==
    /\ First \/ Repeat("GetFileName", address)
    /\ garbage \in (IF dbg.files = <<>> THEN FileObjects ELSE {NoFile})
    /\ q' = [Query("GetFileName", address,
                   GetFile(dbg.files, address, garbage)) EXCEPT
                !.name = GetFileName(dbg.files, address, garbage),
                !.ub = dbg.files = <<>>,
                !.again = ~First]
    /\ UNCHANGED <<instances_, npCalls_, errorCaught_, amx, die_on_error,
                   exited, nullDeref, ctl, out, last, prop, dbg>>

\* GetFunction(address)
QueryFunction(address) ==
    /\ First \/ Repeat("GetFunction", address)
    /\ q' = [Query("GetFunction", address,
                   GetFunction(dbg.symbols, address)) EXCEPT
                !.again = ~First]
    /\ UNCHANGED <<instances_, npCalls_, errorCaught_, amx, die_on_error,
                   exited, nullDeref, ctl, out, last, prop, dbg>>

\* symbol.GetValue(amx, frm) for a symbol whose address is address
QueryValue(address, frm) ==
    /\ First \/ (Repeat("GetValue", address) /\ q.frm # frm)
    /\ q' = [Query("GetValue", address, NoSymbol) EXCEPT
                !.frm = frm,
                !.loc = GetValue(dbg.hdr.cod, dbg.hdr.dat, amx["amx1"].frm,
                                 address, frm),
                !.again = ~First,
                !.prev = q.loc]
    /\ UNCHANGED <<instances_, npCalls_, errorCaught_, amx, die_on_error,
                   exited, nullDeref, ctl, out, last, prop, dbg>>

\* a debug file with a line table, a file table or a symbol table, or a VM
\* with some header stopped at some frame
InitDbg ==
    /\ instances_ = [a \in AMXs |-> NoInstance]
    /\ npCalls_ = <<>>
    /\ errorCaught_ = FALSE
    /\ die_on_error = FALSE
    /\ exited = FALSE
    /\ nullDeref = FALSE
    /\ ctl = <<>>
    /\ out = <<>>
    /\ last = NoStep
    /\ prop = NoProp
    /\ q = NoQuery
    /\ \/ /\ dbg \in {[NoTables EXCEPT !.lines = T] : T \in LineTables}
                  \cup {[NoTables EXCEPT !.files = T] : T \in FileTables}
                  \cup {[NoTables EXCEPT !.symbols = T] : T \in SymbolTables}
          /\ amx = [a \in AMXs |-> [frm |-> 0, error |-> AMX_ERR_NONE]]
       \/ /\ dbg \in {[NoTables EXCEPT !.hdr = h] : h \in Headers}
          /\ \E f \in FrmVals :
                amx = [a \in AMXs |-> [frm |-> f, error |-> AMX_ERR_NONE]]

NextDbg ==
    \/ \E address \in Addrs, garbage \in LineObjects :
          QueryLine(address, garbage)
    \/ \E address \in Addrs, garbage \in FileObjects :
          QueryFile(address, garbage)
    \/ \E address \in Addrs : QueryFunction(address)
    \/ \E address \in Addrs, frm \in FrmVals : QueryValue(address, frm)

SpecDbg == InitDbg /\ [][NextDbg]_vars

(* ---- properties ---- *)
Returned(op) == last.op = op /\ ~exited

\* the phantom index case of an execution step
PhantomCase == last.retcode = AMX_ERR_INDEX /\ last.index = AMX_EXEC_GDK

\* an execution step that failed and inside which no other handler ran
FailedLeafStep ==
    /\ last.op = "ExecReturn"
    /\ last.retcode # AMX_ERR_NONE
    /\ last.leaf
    /\ ~PhantomCase

\* C1: every execution step whose amx_Exec returns a non-success code emits
\* a runtime-error report (header line, then the backtrace), unless an
\* error was reported during the step or it is the phantom index case; a
\* step inside which no handler ran has had no report during it, so it must
\* report, whatever the steps that returned before it did.
C1_EveryFailedStepReports ==
    FailedLeafStep =>
        /\ last.reported
        /\ out[1].kind = "runtime_error"
        /\ HasKind(out, "backtrace")

\* C2: a failure that an inner HandleAmxExec reported and that each
\* enclosing HandleAmxExec returns in turn has one runtime-error report.
C2_PropagatedFailureReportedOnce ==
    prop.origin = "exec" => prop.n <= 1

\* the history entry a handler in progress has pushed
EntryOf(f) ==
    NativePublicCall(IF f.fn = EXEC THEN PUBLIC ELSE NATIVE,
                     f.amx, f.index, f.frm0)

\* C3: the call-type history mirrors the calls in progress: entry i is the
\* PUBLIC or NATIVE entry (VM, index, frm at call time) of the i-th handler
\* in progress, in nesting order, and a handler that has returned has
\* popped its own entry and nothing else.
C3_HistoryMirrorsActiveCalls ==
    /\ Len(npCalls_) = Len(ctl)
    /\ \A i \in 1..Len(ctl) : npCalls_[i] = EntryOf(ctl[i])
    /\ (Returned("ExecReturn") \/ Returned("CallbackReturn"))
          => Len(npCalls_) = last.depth - 1

\* the innermost of three nested handlers, an execution step, has returned:
\* two entries are left, the outer one of another VM than the step's, with
\* differing frame pointers, the outer VM having left its entry's frame
C3_Witness ==
    /\ Len(npCalls_) = 2
    /\ Returned("ExecReturn")
    /\ last.depth = 3
    /\ npCalls_[1].amx # last.amx
    /\ npCalls_[2].frm # npCalls_[1].frm
    /\ amx[npCalls_[1].amx].frm # npCalls_[1].frm

\* C4: every call of PrintBacktrace returns with the call-type history and
\* the VMs' registers as it found them.
C4_BacktraceKeepsHistory ==
    last.btRan => last.btKept

\* a runtime error reported by the innermost of three nested handlers
C4_Witness ==
    /\ last.btRan
    /\ last.op = "ExecReturn"
    /\ last.reported
    /\ last.depth = 3
    /\ Len(npCalls_) = 2

\* C5: a crash or interrupt notification that finds the history non-empty
\* runs the handler of the instance of the topmost entry's VM, which exists,
\* and prints that handler's message and the backtrace that starts at the
\* topmost entry.
C5_NotificationBlamesTopEntry ==
    (last.op \in {"Crash", "Interrupt"} /\ npCalls_ # <<>>) =>
        /\ last.self = Top(npCalls_).amx
        /\ instances_[Top(npCalls_).amx].present
        /\ last.op = "Crash" =>
              out[1] = Line("crash", Top(npCalls_).amx, -1, "", 0)
        /\ last.op = "Interrupt" =>
              out[1] = Line("interrupt", "", -1, "", 0)
        /\ Len(out) >= 3
        /\ out[2] = BacktraceHeader
        /\ out[3].amx = Top(npCalls_).amx
        /\ out[3].depth \in {0, -1}

\* a crash while a call of one VM is nested in a call of the other
C5_Witness ==
    /\ last.op = "Crash"
    /\ Len(npCalls_) = 3
    /\ npCalls_[1].amx # Top(npCalls_).amx

\* C6: a crash notification that finds the history empty prints the one
\* "unknown error" line and creates no instance.
C6_UnattributedCrash ==
    (last.op = "Crash" /\ npCalls_ = <<>>) =>
        /\ out = <<Line("crash_unknown", "", -1, "", 0)>>
        /\ ~last.created
        /\ ~last.btRan

\* such a crash with the abort option set and a VM that has no instance
C6_Witness ==
    /\ last.op = "Crash"
    /\ npCalls_ = <<>>
    /\ die_on_error
    /\ \E a \in AMXs : ~instances_[a].present

\* C7: an interrupt is reported (the message, and the backtrace of the
\* innermost call's VM when a call is active, the message alone otherwise)
\* and then ExitOnError runs: the process has exited exactly when
\* die_on_error is set, after the "Aborting" line.
C7_InterruptReportedThenAbortPolicy ==
    last.op = "Interrupt" =>
        /\ out[1] = Line("interrupt", "", -1, "", 0)
        /\ exited <=> die_on_error
        /\ die_on_error => out[Len(out)].kind = "aborting"
        /\ npCalls_ = <<>> => /\ Len(out) = 1 + (IF die_on_error THEN 1 ELSE 0)
                              /\ ~last.btRan
        /\ npCalls_ # <<>> => /\ out[2] = BacktraceHeader
                              /\ last.self = Top(npCalls_).amx
                              /\ Len(out) >=
                                   3 + (IF die_on_error THEN 1 ELSE 0)

\* an interrupt with the option set and no call in progress
C7_Witness ==
    /\ last.op = "Interrupt"
    /\ npCalls_ = <<>>
    /\ die_on_error
    /\ exited

\* a step that reported a runtime error or a native-call failure
ReportedError ==
    last.op \in {"ExecReturn", "CallbackReturn"} /\ last.reported

\* C8 as stated: after every reported failure (runtime error, native-call
\* failure, crash, interrupt) the process has exited exactly when
\* die_on_error is set.
C8_AbortAfterEveryReport ==
    (ReportedError \/ last.op \in {"Crash", "Interrupt"}) =>
        (exited <=> die_on_error)

\* C8 amended: after a reported runtime error, native-call failure or
\* interrupt the process has exited exactly when die_on_error is set; the
\* crash handler never exits, whatever the option; and without the option a
\* handler that reported has returned and popped its entry.
C8_AbortPolicyExceptCrash ==
    /\ (ReportedError \/ last.op = "Interrupt") => (exited <=> die_on_error)
    /\ last.op = "Crash" => ~exited
    /\ (ReportedError /\ ~die_on_error) => Len(npCalls_) = last.depth - 1
    /\ (ReportedError /\ die_on_error) => out[Len(out)].kind = "aborting"

\* a native-call failure reported without the option, two handlers deep
C8_Witness ==
    /\ last.op = "CallbackReturn"
    /\ last.reported
    /\ ~die_on_error
    /\ Len(npCalls_) = 1

\* C9: a native call that leaves AMX_ERR_NATIVE in amx->error is reported
\* once, with the native's name or "??" and the backtrace, and amx->error
\* is AMX_ERR_NONE when HandleAmxCallback returns, whether the native
\* failed or not; the execution step around it does not report the failure
\* a second time.
C9_NativeFailureReportedOnce ==
    /\ Returned("CallbackReturn") => amx[last.amx].error = AMX_ERR_NONE
    /\ (last.op = "CallbackReturn" /\ last.reported) =>
          /\ out[1].kind = "native_failed"
          /\ out[1].what = (IF last.index = 0 THEN "native0" ELSE "??")
          /\ out[2] = BacktraceHeader
    /\ prop.origin = "native" => prop.n <= 1

\* C10: the phantom index error prints nothing, does not exit, and leaves
\* the report of the next failing execution step as it would have been.
C10_PhantomHasNoEffect ==
    /\ (last.op = "ExecReturn" /\ last.phantom) => (out = <<>> /\ ~exited)
    /\ (FailedLeafStep /\ last.afterPhantom) => last.reported

(* ---- the backtrace of the latest step, as printed ---- *)
\* the lines PrintBacktrace printed after its header
BtBody ==
    SelectSeq(out, LAMBDA l : l.kind \in {"native", "frame", "corrupted"})

\* the frm handed to the walker for entry i of the history PrintBacktrace
\* copied: the instance's frm for the topmost entry, else the frm recorded
\* in the entry above
StartFrm(i) ==
    IF i = Len(last.btCalls) THEN last.btFrm ELSE last.btCalls[i + 1].frm

\* the frames the walker returned for the public entry i
WalkerFrames(i) == GetFrames(last.btCalls[i].amx, StartFrm(i))

\* the lines entry i stands for
Width(i) ==
    IF last.btCalls[i].type = NATIVE \/ WalkerFrames(i) = <<>> THEN 1
    ELSE Len(WalkerFrames(i))

\* the lines the entries i and above stand for
RECURSIVE WidthFrom(_)
WidthFrom(i) ==
    IF i > Len(last.btCalls) THEN 0 ELSE Width(i) + WidthFrom(i + 1)

\* where the lines of entry i start
Pos(i) == 1 + WidthFrom(i + 1)

\* the numbered lines before line k
NumberedBefore(k) ==
    Cardinality({m \in 1..(k - 1) : BtBody[m].kind # "corrupted"})

CorruptedEntry(i) ==
    last.btCalls[i].type = PUBLIC /\ WalkerFrames(i) = <<>>

\* C11: a public entry for which the walker returns no frames gives the one
\* line "Stack corrupted", at the place of the entry; the entries below it
\* are all printed after it, and the numbered lines after it carry on from
\* the number reached before it.
C11_CorruptedEntryDegradesAlone ==
    last.btRan =>
        \A i \in 1..Len(last.btCalls) : CorruptedEntry(i) =>
            /\ Len(BtBody) = WidthFrom(1)
            /\ BtBody[Pos(i)] = Line("corrupted", last.btCalls[i].amx, -1, "", 0)
            /\ \A j \in 1..(i - 1) :
                   /\ BtBody[Pos(j)].amx = last.btCalls[j].amx
                   /\ BtBody[Pos(j)].kind = "native"
                          <=> last.btCalls[j].type = NATIVE
            /\ \A k \in (Pos(i) + 1)..Len(BtBody) :
                   BtBody[k].kind # "corrupted" =>
                       BtBody[k].depth = NumberedBefore(Pos(i)) + 
                           Cardinality({m \in (Pos(i) + 1)..(k - 1) :
                                           BtBody[m].kind # "corrupted"})

\* the topmost public entry has no frames; the native below it is #0 and
\* the frames of the public below that follow
C11_Witness ==
    /\ last.btRan
    /\ Len(last.btCalls) = 3
    /\ CorruptedEntry(3)
    /\ Len(BtBody) = 4
    /\ BtBody[1].kind = "corrupted"
    /\ BtBody[2].kind = "native" /\ BtBody[2].depth = 0
    /\ BtBody[3].kind = "frame" /\ BtBody[3].depth = 1
    /\ BtBody[4].kind = "frame" /\ BtBody[4].depth = 2

\* C12: the backtrace is the header and then the entries of the history
\* from the top down: a native entry gives its one line, a public entry its
\* walker frames in walker order, and the numbered lines count 0, 1, 2, ...
C12_BacktraceFollowsHistory ==
    last.btRan =>
        /\ HasKind(out, "backtrace")
        /\ Len(BtBody) = WidthFrom(1)
        /\ \A i \in 1..Len(last.btCalls) :
              LET call == last.btCalls[i]
              IN  /\ call.type = NATIVE =>
                        /\ BtBody[Pos(i)].kind = "native"
                        /\ BtBody[Pos(i)].amx = call.amx
                  /\ (call.type = PUBLIC /\ ~CorruptedEntry(i)) =>
                        \A k \in 1..Len(WalkerFrames(i)) :
                           /\ BtBody[Pos(i) + k - 1].kind = "frame"
                           /\ BtBody[Pos(i) + k - 1].amx = call.amx
                           /\ BtBody[Pos(i) + k - 1].code =
                                  WalkerFrames(i)[k].addr
        /\ \A k \in 1..Len(BtBody) :
              BtBody[k].kind # "corrupted" =>
                  BtBody[k].depth = NumberedBefore(k)

\* a bounds error in C, which a native called from B ran, B called by A:
\* the lines are C, the native, B, A
C12_Witness ==
    /\ last.op = "ExecReturn" /\ last.retcode = AMX_ERR_BOUNDS
    /\ last.btRan
    /\ Len(last.btCalls) = 3
    /\ last.btCalls[1].type = PUBLIC /\ last.btCalls[2].type = NATIVE
    /\ last.btCalls[3].type = PUBLIC
    /\ Len(BtBody) = 4
    /\ BtBody[1].kind = "frame" /\ BtBody[1].depth = 0
    /\ BtBody[2].kind = "native" /\ BtBody[2].depth = 1
    /\ BtBody[3].kind = "frame" /\ BtBody[3].code = 2
    /\ BtBody[4].kind = "frame" /\ BtBody[4].code = 1 /\ BtBody[4].depth = 3

(* ---- the lookups of the debug info ---- *)
\* the entries of T at or before address
AtOrBefore(T, address) == {k \in 1..Len(T) : T[k].address <= address}

\* entry k is the one that covers address: at or before it, and the next
\* entry after it
Covers(T, k, address) ==
    /\ T[k].address <= address
    /\ k < Len(T) => address < T[k + 1].address

\* C13: GetLine and GetFile return an entry with the greatest address at or
\* before the queried one, and the "not found" object when the table has no
\* such entry (the address is before the first entry, or the table is
\* empty).
C13_LookupGreatestAtOrBefore ==
    /\ q.fn = "GetLineNumber" =>
          IF AtOrBefore(dbg.lines, q.address) = {}
          THEN ~IsSet(q.obj) /\ q.number = 0
          ELSE /\ IsSet(q.obj)
               /\ \E k \in AtOrBefore(dbg.lines, q.address) :
                     /\ q.obj.address = dbg.lines[k].address
                     /\ \A j \in AtOrBefore(dbg.lines, q.address) :
                           dbg.lines[j].address <= dbg.lines[k].address
    /\ q.fn = "GetFileName" =>
          IF AtOrBefore(dbg.files, q.address) = {}
          THEN ~IsSet(q.obj) /\ q.name = ""
          ELSE /\ IsSet(q.obj)
               /\ \E k \in AtOrBefore(dbg.files, q.address) :
                     /\ q.obj = FileOf(dbg.files[k])
                     /\ \A j \in AtOrBefore(dbg.files, q.address) :
                           dbg.files[j].address <= dbg.files[k].address

\* C14: GetFunction returns a symbol of the table that is a function, whose
\* range [codestart, codeend) holds the address and whose name does not
\* begin with '@'; it returns the "not found" object exactly when the table
\* has no such symbol.
C14_FunctionNeverBuggedForward ==
    q.fn = "GetFunction" =>
        LET good == {k \in 1..Len(dbg.symbols) :
                        /\ dbg.symbols[k].ident = iFUNCTN
                        /\ dbg.symbols[k].codestart <= q.address
                        /\ q.address < dbg.symbols[k].codeend
                        /\ dbg.symbols[k].name[1] # "@"}
        IN  /\ IsSet(q.obj) <=> good # {}
            /\ IsSet(q.obj) => \E k \in good : q.obj = SymbolOf(dbg.symbols[k])
            /\ ~IsSet(q.obj) => q.obj = NoSymbol

\* the first symbol of the table is an '@' function that holds the address,
\* and the function after it is returned; or it is the only one that holds
\* the address, and nothing is returned
C14_Witness ==
    /\ q.fn = "GetFunction"
    /\ Len(dbg.symbols) = 2
    /\ dbg.symbols[1].ident = iFUNCTN
    /\ dbg.symbols[1].name[1] = "@"
    /\ dbg.symbols[1].codestart <= q.address
    /\ q.address < dbg.symbols[1].codeend
    /\ q.obj = SymbolOf(dbg.symbols[2])

\* C15: the line lookup at an address covered by an entry returns the
\* entry's stored line plus one and leaves the table as it was; the same
\* query again returns the same number.
C15_LinePlusOneTableKept ==
    (q.fn = "GetLineNumber" /\ ~q.ub) =>
        /\ q.kept
        /\ \A k \in 1..Len(dbg.lines) :
              Covers(dbg.lines, k, q.address) =>
                  /\ q.number = dbg.lines[k].line + 1
                  /\ q.obj.line = dbg.lines[k].line + 1
        /\ q.again => q.number = q.prev

\* the query is repeated at an address between two entries
C15_Witness ==
    /\ q.fn = "GetLineNumber"
    /\ q.again
    /\ Len(dbg.lines) = 2
    /\ dbg.lines[1].address < q.address
    /\ q.address < dbg.lines[2].address
    /\ q.number = dbg.lines[1].line + 1
    /\ dbg.lines[1].line # dbg.lines[2].line

\* C16: GetValue reads at cod + address when address > cod, at
\* dat + address when dat < address < cod, and else at dat + frm + address,
\* frm being amx->frm when the argument is 0; in the first two cases a
\* second call with another frm reads the same cell.
C16_ValueBucketByAddress ==
    q.fn = "GetValue" =>
        LET cod == dbg.hdr.cod
            dat == dbg.hdr.dat
            absolute == q.address > cod \/ (q.address > dat /\ q.address < cod)
        IN  /\ q.address > cod => q.loc = cod + q.address
            /\ (q.address > dat /\ q.address < cod) =>
                   q.loc = dat + q.address
            /\ ~absolute =>
                   q.loc = dat + q.address +
                           (IF q.frm = 0 THEN amx["amx1"].frm ELSE q.frm)
            /\ (absolute /\ q.again) => q.loc = q.prev

\* a data-segment address read a second time, with a frame pointer, in a
\* VM whose own frm is not 0
C16_Witness ==
    /\ q.fn = "GetValue"
    /\ q.again
    /\ q.address > dbg.hdr.dat /\ q.address < dbg.hdr.cod
    /\ q.frm # 0
    /\ amx["amx1"].frm # 0

\* C17: a query at the address of a line or file entry returns an entry
\* with that address, and GetFunction at the codestart of a function whose
\* name does not begin with '@' returns that function.
C17_ExactAddressHitsEntry ==
    /\ (q.fn = "GetLineNumber"
          /\ \E k \in 1..Len(dbg.lines) : dbg.lines[k].address = q.address) =>
          /\ q.obj.address = q.address
          /\ \E k \in 1..Len(dbg.lines) :
                /\ dbg.lines[k].address = q.address
                /\ q.number = dbg.lines[k].line + 1
    /\ (q.fn = "GetFileName"
          /\ \E k \in 1..Len(dbg.files) : dbg.files[k].address = q.address) =>
          /\ q.obj.address = q.address
          /\ \E k \in 1..Len(dbg.files) :
                /\ dbg.files[k].address = q.address
                /\ q.name = dbg.files[k].name
    /\ q.fn = "GetFunction" =>
          \A k \in 1..Len(dbg.symbols) :
             (Implemented(dbg.symbols[k])
                 /\ dbg.symbols[k].codestart = q.address) =>
                   q.obj = SymbolOf(dbg.symbols[k])

\* GetFunction at the codestart of the second function, which is where the
\* first one ends
C17_Witness ==
    /\ q.fn = "GetFunction"
    /\ Len(dbg.symbols) = 2
    /\ Implemented(dbg.symbols[1]) /\ Implemented(dbg.symbols[2])
    /\ dbg.symbols[1].codeend = q.address
    /\ dbg.symbols[2].codestart = q.address
    /\ q.obj = SymbolOf(dbg.symbols[2])

\* C18: a frame line of a VM whose debug info is not loaded has no file and
\* no line, and shows the function by its raw address, never by a name.
C18_NoDebugInfoOnlyRawAddress ==
    last.btRan =>
        \A k \in 1..Len(BtBody) :
            (BtBody[k].kind = "frame"
                /\ ~instances_[BtBody[k].amx].loaded) =>
                   BtBody[k].what = "raw"

\* C19: a VM that was unloaded and not loaded since has no instance in the
\* registry, and the latest step printed no line for it.
C19_UnloadedVmStaysSilent ==
    \A a \in last.unloaded :
        /\ ~instances_[a].present
        /\ \A i \in 1..Len(out) : out[i].amx # a

\* C20: with debug info, the one frame line that takes its file and line
\* from the VM's cip is the first frame line of the backtrace; every other
\* frame line takes its line from a call address recorded by the frame
\* before it.
C20_OnlyInnermostFrameUsesCip ==
    last.btRan =>
        \A k \in 1..Len(BtBody) :
            (BtBody[k].kind = "frame"
                /\ instances_[BtBody[k].amx].loaded) =>
                   IF \E m \in 1..(k - 1) : BtBody[m].kind = "frame"
                   THEN BtBody[k].what = "prev"
                   ELSE BtBody[k].what = "cip"

(* ---- where the walk of a public entry starts ---- *)
\* the lines printed for entry i of the copied history: kind and address
PrintedFor(i) ==
    [k \in 1..Width(i) |->
        <<BtBody[Pos(i) + k - 1].kind, BtBody[Pos(i) + k - 1].code>>]

\* the lines a walk of the frame chain of VM a gives when it starts at frm
WalkFrom(a, frm) ==
    IF GetFrames(a, frm) = <<>> THEN << <<"corrupted", 0>> >>
    ELSE [k \in 1..Len(GetFrames(a, frm)) |->
             <<"frame", GetFrames(a, frm)[k].addr>>]

\* the VM whose frm is handed to the walker for entry i: the VM of the
\* instance that prints for the topmost entry, else the VM of the entry
\* above, whose recorded frm the loop carries down
FrmOwner(i) ==
    IF i = Len(last.btCalls) THEN last.btSelf ELSE last.btCalls[i + 1].amx

\* C21 as stated: for each public entry of the history the walk starts at
\* the frame pointer recorded in that entry, and that frame pointer belongs
\* to the VM of the entry.
C21_WalkStartsAtOwnRecordedFrm ==
    last.btRan =>
        /\ Len(BtBody) = WidthFrom(1)
        /\ \A i \in 1..Len(last.btCalls) :
              LET call == last.btCalls[i]
              IN  call.type = PUBLIC =>
                     /\ PrintedFor(i) = WalkFrom(call.amx, call.frm)
                     /\ FrmOwner(i) = call.amx

\* C21 amended: for each public entry the walk starts at the frm the loop
\* holds when it reaches the entry, which is the live frm of the printing
\* instance's VM for the topmost entry and the frm recorded in the entry
\* directly above otherwise; the entry above a public entry is a native
\* entry of the same VM and the printing instance is that of the topmost
\* entry's VM, so the frm always belongs to the VM of the entry walked.
C21_WalkStartsAtFrmCarriedDown ==
    last.btRan =>
        /\ Len(BtBody) = WidthFrom(1)
        /\ last.btSelf = Top(last.btCalls).amx
        /\ \A i \in 1..Len(last.btCalls) :
              LET call == last.btCalls[i]
              IN  call.type = PUBLIC =>
                     /\ PrintedFor(i) = WalkFrom(call.amx, StartFrm(i))
                     /\ FrmOwner(i) = call.amx
                     /\ i < Len(last.btCalls) =>
                            last.btCalls[i + 1].type = NATIVE

\* amx1 called a native at frm 2 that called a public of amx2, which failed
\* at frm 1: both public entries recorded frm 0 and are walked from the frm
\* of their own VM that was carried down to them
C21_Witness ==
    /\ last.btRan
    /\ Len(last.btCalls) = 3
    /\ last.btCalls[1].type = PUBLIC /\ last.btCalls[1].amx = "amx1"
    /\ last.btCalls[3].type = PUBLIC /\ last.btCalls[3].amx = "amx2"
    /\ last.btCalls[1].frm = 0 /\ last.btCalls[3].frm = 0
    /\ StartFrm(3) = 1 /\ StartFrm(1) = 2
    /\ PrintedFor(3) = << <<"frame", 1>> >>
    /\ PrintedFor(1) = << <<"frame", 2>>, <<"frame", 1>> >>

(* ---- the registry when PrintBacktrace reaches a public entry ---- *)
\* C22: whenever PrintBacktrace reaches a public entry of the history, the
\* registry holds an instance for the VM of the entry, so that
\* instances_[call.amx()] is never a null pointer; also when a VM is
\* unloaded while calls of it are in progress.
C22_PublicEntryHasInstance ==
    /\ ~nullDeref
    /\ last.btRan =>
           \A i \in 1..Len(last.btCalls) :
              last.btCalls[i].type = PUBLIC =>
                  instances_[last.btCalls[i].amx].present





=============================================================================
